---- MODULE Spec2Model ----
(***************************************************************************)
(* Model of docker-image-version-matrix-action: the orchestrator run(),    *)
(* the Docker Hub tag client, the version filter and the matrix builder.   *)
(*                                                                         *)
(* Strings the code takes apart (tag names, semver ranges, tag templates,  *)
(* build-arg values) are sequences of one-character strings, so that       *)
(* split, trim, startsWith, replace and the regular expressions are        *)
(* modelled by what they do.  Strings the code only compares (strategy,    *)
(* build names, paths) are TLA+ strings, "" standing for a missing or      *)
(* empty (falsy) value.  An optional value is None or Some(v).             *)
(***************************************************************************)
EXTENDS Integers, Sequences, FiniteSets, TLC

VARIABLES
    pc,          \* position of run(): start, merge, fetch, await, fetched,
                 \* fallback, select, build, done
    inputs,      \* action inputs and the config file on disk
    source,      \* the remote tag source (Docker Hub repository)
    loaded,      \* the configuration as loadConfig returned it
    config,      \* run's config variable (after the override)
    url,         \* fetchDockerTags: cursor of the next page, 0 for ''
    page,        \* fetchDockerTags: page counter
    tags,        \* fetchDockerTags: accumulated tags; then run's allTags
    requests,    \* number of client.getJson calls issued so far
    inflight,    \* number of getJson calls not yet answered
    sawLast,     \* a response without next cursor has been received
    semverTags,  \* run: filterSemanticVersionTags(allTags)
    filtered,    \* filterVersions: strategy-filtered list before the cap
    selected,    \* run: the versions handed to buildMatrix
    matrix,      \* buildMatrix's result
    output,      \* values passed to core.setOutput('matrix', ...)
    failed       \* messages passed to core.setFailed

vars == <<pc, inputs, source, loaded, config, url, page, tags, requests,
          inflight, sawLast, semverTags, filtered, selected, matrix, output,
          failed>>

fetchVars == <<url, page, tags, requests, inflight, sawLast>>
selectVars == <<semverTags, filtered, selected>>

-----------------------------------------------------------------------------
(* Bounds of the model *)

MaxPages == 2
MaxTags == 3
MaxVersions == 3
MaxBuilds == 2

(* Safety limit of the pagination loop *)
PageCap == 100

-----------------------------------------------------------------------------
(* Generic helpers *)

None == <<>>
Some(v) == <<v>>

Min(a, b) == IF a < b THEN a ELSE b

SeqsUpTo(S, n) == UNION {[1..k -> S] : k \in 0..n}

Range(s) == {s[i] : i \in DOMAIN s}

Distinct(s) == \A i, j \in DOMAIN s : i # j => s[i] # s[j]

RECURSIVE Flatten(_)
Flatten(ss) == IF ss = <<>> THEN <<>> ELSE Head(ss) \o Flatten(Tail(ss))

Take(s, n) == SubSeq(s, 1, Min(n, Len(s)))

Drop(s, n) == SubSeq(s, n + 1, Len(s))

(* JavaScript: a thrown value; only instances of Error carry a message the
   catch blocks use *)
Err(msg) == [isError |-> TRUE, message |-> msg]
NonError == [isError |-> FALSE, message |-> <<>>]

-----------------------------------------------------------------------------
(* String helpers (strings as sequences of characters) *)

Digits == {"0", "1", "2", "3", "4", "5", "6", "7", "8", "9"}
Letters == {"a", "b", "c", "d", "e", "f", "g", "h", "i", "j", "k", "l", "m",
            "n", "o", "p", "q", "r", "s", "t", "u", "v", "w", "x", "y", "z"}
WordChars == Digits \cup Letters \cup {"_"}

DigitValue(c) ==
    CASE c = "0" -> 0 [] c = "1" -> 1 [] c = "2" -> 2 [] c = "3" -> 3
      [] c = "4" -> 4 [] c = "5" -> 5 [] c = "6" -> 6 [] c = "7" -> 7
      [] c = "8" -> 8 [] c = "9" -> 9

(* String.prototype.startsWith *)
StartsWith(s, c) == Len(s) > 0 /\ s[1] = c

(* Length of the longest prefix of s made of characters of S *)
RECURSIVE PrefixLen(_, _)
PrefixLen(s, S) ==
    IF s # <<>> /\ Head(s) \in S THEN 1 + PrefixLen(Tail(s), S) ELSE 0

(* Decimal value of a run of digits *)
RECURSIVE Decimal(_)
Decimal(ds) ==
    IF ds = <<>> THEN 0
    ELSE 10 * Decimal(SubSeq(ds, 1, Len(ds) - 1)) + DigitValue(ds[Len(ds)])

(* String.prototype.trim *)
RECURSIVE TrimLeft(_)
TrimLeft(s) == IF s # <<>> /\ Head(s) = " " THEN TrimLeft(Tail(s)) ELSE s

RECURSIVE TrimRight(_)
TrimRight(s) ==
    IF s # <<>> /\ s[Len(s)] = " " THEN TrimRight(SubSeq(s, 1, Len(s) - 1))
    ELSE s

Trim(s) == TrimRight(TrimLeft(s))

(* String.prototype.split with a one-character separator: always at least one
   piece; "a|" gives <<"a", "">> *)
RECURSIVE Split(_, _)
Split(s, sep) ==
    LET n == PrefixLen(s, Range(s) \ {sep})
    IN  IF n = Len(s) THEN <<s>>
        ELSE <<Take(s, n)>> \o Split(Drop(s, n + 1), sep)

(* String.prototype.split with the two-character separator sep sep *)
RECURSIVE Split2(_, _, _)
Split2(s, sep, acc) ==
    IF s = <<>> THEN <<acc>>
    ELSE IF Len(s) >= 2 /\ s[1] = sep /\ s[2] = sep
         THEN <<acc>> \o Split2(Drop(s, 2), sep, <<>>)
         ELSE Split2(Tail(s), sep, Append(acc, Head(s)))

(* Array.prototype.join *)
RECURSIVE Join(_, _)
Join(parts, sep) ==
    IF Len(parts) = 0 THEN <<>>
    ELSE IF Len(parts) = 1 THEN parts[1]
    ELSE parts[1] \o sep \o Join(Tail(parts), sep)

(* String.prototype.includes for one character *)
Includes(s, c) == c \in Range(s)

-----------------------------------------------------------------------------
(* The semver package, as far as the action uses it.  A parsed version is
   <<major, minor, patch>>. *)

(* semver.coerce: the first run of digits is the major, an optional
   ".digits" the minor and the patch, missing ones are 0; None when the
   string holds no digit *)
SemverCoerce(s) ==
    LET start == PrefixLen(s, Range(s) \ Digits)
        r0 == Drop(s, start)
        n1 == PrefixLen(r0, Digits)
        r1 == Drop(r0, n1)
        hasMinor == Len(r1) >= 2 /\ r1[1] = "." /\ r1[2] \in Digits
        n2 == IF hasMinor THEN PrefixLen(Tail(r1), Digits) ELSE 0
        r2 == IF hasMinor THEN Drop(r1, 1 + n2) ELSE r1
        hasPatch == hasMinor /\ Len(r2) >= 2 /\ r2[1] = "." /\ r2[2] \in Digits
        n3 == IF hasPatch THEN PrefixLen(Tail(r2), Digits) ELSE 0
    IN  IF n1 = 0 THEN None
        ELSE Some(<<Decimal(Take(r0, n1)),
                    IF hasMinor THEN Decimal(SubSeq(r1, 2, 1 + n2)) ELSE 0,
                    IF hasPatch THEN Decimal(SubSeq(r2, 2, 1 + n3)) ELSE 0>>)

(* One comparator of a range.  Covered forms: "" and "*" (any version),
   "N" (x-range) and "^N" (caret), each with an optional v or = before the
   number; both stand for >=N.0.0 <(N+1).0.0-0.  Anything else made of these
   characters and letters is no comparator (new Comparator throws). *)
ParseComparator(tok) ==
    LET body == IF StartsWith(tok, "^") THEN Tail(tok) ELSE tok
        num == Drop(body, PrefixLen(body, {"v", "="}))
    IN  IF tok = <<>> \/ tok = <<"*">> THEN [ok |-> TRUE, any |-> TRUE, major |-> 0]
        ELSE IF num # <<>> /\ PrefixLen(num, Digits) = Len(num)
             THEN [ok |-> TRUE, any |-> FALSE, major |-> Decimal(num)]
             ELSE [ok |-> FALSE, any |-> FALSE, major |-> 0]

(* Range.parseRange: the comparators of one ||-part, all of which a version
   must satisfy *)
ParseComparatorSet(part) ==
    LET toks == Split(part, " ")
    IN  [i \in DOMAIN toks |-> ParseComparator(toks[i])]

(* new Range(range): the ||-parts, trimmed; invalid when any comparator is *)
ParseRange(range) ==
    LET parts == Split2(Trim(range), "|", <<>>)
        sets == [i \in DOMAIN parts |-> ParseComparatorSet(Trim(parts[i]))]
    IN  [ok |-> \A i \in DOMAIN sets : \A j \in DOMAIN sets[i] : sets[i][j].ok,
         sets |-> sets]

(* semver.satisfies(version, range): false when the range is invalid *)
SemverSatisfies(version, range) ==
    LET r == ParseRange(range)
    IN  /\ r.ok
        /\ \E i \in DOMAIN r.sets :
              \A j \in DOMAIN r.sets[i] :
                 r.sets[i][j].any \/ r.sets[i][j].major = version[1]

-----------------------------------------------------------------------------
(* Array.prototype.sort as Node runs it (V8's TimSort; an array shorter than
   64 elements is one run: the leading run is found, reversed when strictly
   descending, and the rest is put in place by binary insertion).  With a
   consistent comparator this is a stable sort. *)

(* The comparator of getLatestVersions and getLatestTag; lastUpdated = 0
   stands for a missing timestamp, a positive number for Date.getTime() *)
CompareByLastUpdated(a, b) ==
    IF a.lastUpdated = 0 \/ b.lastUpdated = 0 THEN 0
    ELSE b.lastUpdated - a.lastUpdated

RECURSIVE RunEnd(_, _, _)
RunEnd(arr, descending, idx) ==
    IF idx > Len(arr) THEN idx - 1
    ELSE LET order == CompareByLastUpdated(arr[idx], arr[idx - 1])
         IN  IF (descending /\ order >= 0) \/ (~descending /\ order < 0)
             THEN idx - 1
             ELSE RunEnd(arr, descending, idx + 1)

Reverse(s) == [i \in 1..Len(s) |-> s[Len(s) + 1 - i]]

RECURSIVE InsertionPoint(_, _, _, _)
InsertionPoint(arr, pivot, left, right) ==
    IF left >= right THEN left
    ELSE LET mid == left + ((right - left) \div 2)
         IN  IF CompareByLastUpdated(pivot, arr[mid]) < 0
             THEN InsertionPoint(arr, pivot, left, mid)
             ELSE InsertionPoint(arr, pivot, mid + 1, right)

RECURSIVE BinaryInsertionSort(_, _)
BinaryInsertionSort(arr, start) ==
    IF start > Len(arr) THEN arr
    ELSE LET pivot == arr[start]
             at == InsertionPoint(arr, pivot, 1, start)
             moved == SubSeq(arr, 1, at - 1) \o <<pivot>>
                        \o SubSeq(arr, at, start - 1)
                        \o SubSeq(arr, start + 1, Len(arr))
         IN  BinaryInsertionSort(moved, start + 1)

SortByLastUpdated(arr) ==
    IF Len(arr) < 2 THEN arr
    ELSE LET descending == CompareByLastUpdated(arr[2], arr[1]) < 0
             runLen == RunEnd(arr, descending, 3)
             made == IF descending
                     THEN Reverse(SubSeq(arr, 1, runLen))
                            \o SubSeq(arr, runLen + 1, Len(arr))
                     ELSE arr
         IN  BinaryInsertionSort(made, runLen + 1)

-----------------------------------------------------------------------------
(* version-filter.ts *)

(* cleanVersionString followed by semver.valid: the coerced version, or None
   when nothing can be coerced (the cleaned string is then no valid semver) *)
cleanVersionString(name) ==
    LET cleaned == IF StartsWith(name, "v") THEN Tail(name) ELSE name
    IN  SemverCoerce(cleaned)

filterBySemverRange(tagList, range) ==
    LET Keep(tag) ==
            LET version == cleanVersionString(tag.name)
            IN  version # None /\ SemverSatisfies(version[1], range)
    IN  SelectSeq(tagList, Keep)

getLatestVersions(tagList, count) == Take(SortByLastUpdated(tagList), count)

(* Mutant: the segments are joined by a blank, which semver reads as "and" *)
parsePipeDelimitedRangeJoinedByBlank(rangeString) ==
    IF ~Includes(rangeString, "|") THEN rangeString
    ELSE LET pieces == Split(rangeString, "|")
             ranges == [i \in DOMAIN pieces |-> Trim(pieces[i])]
         IN  Join(ranges, <<" ">>)

parsePipeDelimitedRange(rangeString) ==
    IF ~Includes(rangeString, "|") THEN rangeString
    ELSE LET pieces == Split(rangeString, "|")
             ranges == [i \in DOMAIN pieces |-> Trim(pieces[i])]
         IN  Join(ranges, <<" ", "|", "|", " ">>)

(* Mutant: the cap keeps one element too many *)
ApplyMaxVersionsOneMore(list, maxVersions) ==
    IF maxVersions # None /\ maxVersions[1] > 0
    THEN Take(list, maxVersions[1] + 1)
    ELSE list

(* The cap of filterVersions: maxVersions !== undefined && maxVersions > 0 *)
ApplyMaxVersions(list, maxVersions) ==
    IF maxVersions # None /\ maxVersions[1] > 0
    THEN Take(list, maxVersions[1])
    ELSE list

Names(tagList) == [i \in DOMAIN tagList |-> tagList[i].name]

(* filterVersions: thrown is None or Some(error); filtered is the
   strategy-filtered list, versions the returned names *)
filterVersions(tagList, strategy, semverRange, maxVersions) ==
    LET Result(list) ==
            [thrown |-> None, filtered |-> list,
             versions |-> Names(ApplyMaxVersions(list, maxVersions))]
        Throw(msg) ==
            [thrown |-> Some(Err(msg)), filtered |-> <<>>, versions |-> <<>>]
    IN  CASE strategy = "latest" -> Result(getLatestVersions(tagList, 1))
          [] strategy = "all" -> Result(tagList)
          [] strategy = "semver" ->
                IF semverRange = <<>>
                THEN Throw(<<"semverRange is required when strategy is semver">>)
                ELSE Result(filterBySemverRange(tagList, semverRange))
          [] OTHER -> Throw(<<"Invalid strategy">>)

-----------------------------------------------------------------------------
(* docker-registry.ts: pure helpers *)

(* /^v?\d+(\.\d+)?(\.\d+)?(-[\w.]+)?$/ *)
MatchesSemverRegex(s) ==
    LET s1 == IF StartsWith(s, "v") THEN Tail(s) ELSE s
        n1 == PrefixLen(s1, Digits)
        AfterGroup(r) ==
            IF Len(r) >= 2 /\ r[1] = "." /\ r[2] \in Digits
            THEN Drop(r, 1 + PrefixLen(Tail(r), Digits))
            ELSE r
        rest == AfterGroup(AfterGroup(Drop(s1, n1)))
    IN  /\ n1 >= 1
        /\ \/ rest = <<>>
           \/ /\ Len(rest) >= 2
              /\ rest[1] = "-"
              /\ \A i \in 2..Len(rest) : rest[i] \in WordChars \cup {"."}

filterSemanticVersionTags(tagList) ==
    LET Keep(tag) ==
            LET cleaned == Split(tag.name, "-")[1]
            IN  MatchesSemverRegex(cleaned) \/ MatchesSemverRegex(tag.name)
    IN  SelectSeq(tagList, Keep)

(* getLatestTag: None for an empty list *)
getLatestTag(tagList) ==
    IF Len(tagList) = 0 THEN None ELSE Some(SortByLastUpdated(tagList)[1])

(* Mutant: the status of an entry is not looked at *)
ActiveTagsAnyStatus(results) ==
    [i \in DOMAIN results |->
        [name |-> results[i].name, lastUpdated |-> results[i].last_updated]]

(* The tags of one response page that fetchDockerTags keeps *)
ActiveTags(results) ==
    LET Active(r) == r.tag_status = "active"
        kept == SelectSeq(results, Active)
    IN  [i \in DOMAIN kept |->
            [name |-> kept[i].name, lastUpdated |-> kept[i].last_updated]]

(* Mutant: the safety limit off by one *)
LoopContinuesOneMore(u, p) == u # 0 /\ p <= PageCap

(* The loop condition of fetchDockerTags *)
LoopContinues(u, p) == u # 0 /\ p < PageCap

-----------------------------------------------------------------------------
(* main.ts: buildMatrix *)

Placeholder == <<"{", "v", "e", "r", "s", "i", "o", "n", "}">>

(* Index of the first occurrence of pat in s from position i on, 0 if none *)
RECURSIVE IndexOf(_, _, _)
IndexOf(s, pat, i) ==
    IF i + Len(pat) - 1 > Len(s) THEN 0
    ELSE IF SubSeq(s, i, i + Len(pat) - 1) = pat THEN i
    ELSE IndexOf(s, pat, i + 1)

(* The two characters of the replacement patterns that are written here by
   name: the grave accent and the apostrophe *)
GraveAccent == "grave"
Apostrophe == "apostrophe"

(* String.prototype.replace with a string as replacement: the replacement
   patterns $$, $&, $ with a grave accent and $ with an apostrophe are
   expanded; with a string pattern there are no capture groups, so any other
   $ stays as it is *)
RECURSIVE ExpandReplacement(_, _, _, _)
ExpandReplacement(by, matched, before, after) ==
    IF by = <<>> THEN <<>>
    ELSE IF /\ by[1] = "$"
            /\ Len(by) >= 2
            /\ by[2] \in {"$", "&", GraveAccent, Apostrophe}
    THEN (CASE by[2] = "$" -> <<"$">>
            [] by[2] = "&" -> matched
            [] by[2] = GraveAccent -> before
            [] OTHER -> after)
         \o ExpandReplacement(Drop(by, 2), matched, before, after)
    ELSE <<by[1]>> \o ExpandReplacement(Tail(by), matched, before, after)

(* Mutant: every occurrence is replaced *)
RECURSIVE ReplaceEvery(_, _, _)
ReplaceEvery(s, pat, by) ==
    LET at == IndexOf(s, pat, 1)
    IN  IF at = 0 THEN s
        ELSE SubSeq(s, 1, at - 1) \o by
             \o ReplaceEvery(Drop(s, at + Len(pat) - 1), pat, by)

(* String.prototype.replace with a string pattern: the first occurrence *)
ReplaceFirst(s, pat, by) ==
    LET at == IndexOf(s, pat, 1)
        before == SubSeq(s, 1, at - 1)
        after == Drop(s, at + Len(pat) - 1)
    IN  IF at = 0 THEN s
        ELSE before \o ExpandReplacement(by, pat, before, after) \o after

(* a || b on strings *)
OrElse(a, b) == IF a = "" THEN b ELSE a

(* Mutant: the earlier map wins on a collision *)
SpreadMergeFirstWins(first, second) ==
    [k \in DOMAIN first \cup DOMAIN second |->
        IF k \in DOMAIN first THEN first[k] ELSE second[k]]

(* { ...first, ...second }: the later map wins *)
SpreadMerge(first, second) ==
    [k \in DOMAIN first \cup DOMAIN second |->
        IF k \in DOMAIN second THEN second[k] ELSE first[k]]

EmptyMap == <<>>

InjectedArgs(version, baseImage) ==
    [k \in {"BASE_IMAGE_VERSION", "BASE_IMAGE"} |->
        IF k = "BASE_IMAGE_VERSION" THEN version ELSE baseImage]

MatrixEntry(version, build, baseImage) ==
    LET templates == IF build.tags = None THEN <<Placeholder>> ELSE build.tags[1]
    IN  [version |-> version,
         name |-> OrElse(build.name, "default"),
         dockerfilePath |-> OrElse(build.dockerfilePath, "Dockerfile"),
         contextPath |-> OrElse(build.contextPath, "."),
         buildArgs |-> SpreadMerge(InjectedArgs(version, baseImage),
                                   IF build.buildArgs = None THEN EmptyMap
                                   ELSE build.buildArgs[1]),
         tags |-> [i \in DOMAIN templates |->
                      ReplaceFirst(templates[i], Placeholder, version)]]

(* Mutant: the loops nested the other way round *)
buildMatrixBuildsOutside(versions, builds, baseImage) ==
    LET list == IF builds = None THEN <<>> ELSE builds[1]
    IN  Flatten([j \in DOMAIN list |->
                    [i \in DOMAIN versions |->
                        MatrixEntry(versions[i], list[j], baseImage)]])

(* The nested loops: for each version, for each build *)
buildMatrix(versions, builds, baseImage) ==
    LET list == IF builds = None THEN <<>> ELSE builds[1]
    IN  Flatten([i \in DOMAIN versions |->
                    [j \in DOMAIN list |->
                        MatrixEntry(versions[i], list[j], baseImage)]])

-----------------------------------------------------------------------------
(* config.ts *)

DefaultBuild ==
    [name |-> "default", dockerfilePath |-> "Dockerfile", contextPath |-> ".",
     buildArgs |-> Some(EmptyMap),
     tags |-> Some(<<Placeholder, <<"l", "a", "t", "e", "s", "t">> >>)]

getDefaultConfig ==
    [strategy |-> "latest", semverRange |-> <<>>, maxVersions |-> None,
     builds |-> Some(<<DefaultBuild>>)]

(* The state of run's config variable before loadConfig has returned *)
NoConfig ==
    [strategy |-> "", semverRange |-> <<>>, maxVersions |-> None,
     builds |-> None]

(* The map over builds at the end of validateAndNormalizeConfig; index is
   0-based *)
NormalizeBuild(build, index) ==
    [name |-> OrElse(build.name, "build-" \o ToString(index)),
     dockerfilePath |-> OrElse(build.dockerfilePath, "Dockerfile"),
     contextPath |-> OrElse(build.contextPath, "."),
     buildArgs |-> IF build.buildArgs = None THEN Some(EmptyMap)
                   ELSE build.buildArgs,
     tags |-> IF build.tags = None THEN Some(<<Placeholder>>) ELSE build.tags]

(* Mutant: only negative values are rejected *)
MaxVersionsRejectedBelowZero(maxVersions) ==
    maxVersions # None /\ maxVersions[1] < 0

(* The maxVersions check of validateAndNormalizeConfig *)
MaxVersionsRejected(maxVersions) == maxVersions # None /\ maxVersions[1] < 1

(* Mutant: an empty list of builds is kept *)
BuildsOrDefaultKeepsEmpty(given) == given

(* validateAndNormalizeConfig, lines 95-98: no builds, the default ones *)
BuildsOrDefault(given) ==
    IF Len(given) = 0 THEN getDefaultConfig.builds[1] ELSE given

(* validateAndNormalizeConfig: thrown is None or Some(error) *)
validateAndNormalizeConfig(c) ==
    LET strategy == OrElse(c.strategy, "latest")
        given == IF c.builds = None THEN <<>> ELSE c.builds[1]
        builds == BuildsOrDefault(given)
        Throw(msg) == [thrown |-> Some(Err(msg)), config |-> NoConfig]
    IN  IF strategy \notin {"latest", "all", "semver"}
        THEN Throw(<<"Invalid strategy">>)
        ELSE IF strategy = "semver" /\ c.semverRange = <<>>
        THEN Throw(<<"semverRange is required when strategy is semver">>)
        ELSE IF MaxVersionsRejected(c.maxVersions)
        THEN Throw(<<"maxVersions must be greater than 0">>)
        ELSE [thrown |-> None,
              config |->
                [strategy |-> strategy,
                 semverRange |-> c.semverRange,
                 maxVersions |-> c.maxVersions,
                 builds |-> Some([i \in DOMAIN builds |->
                                     NormalizeBuild(builds[i], i - 1)])]]

(* The catch block of loadConfig and of fetchDockerTags: an Error is wrapped
   in a new Error with a prefix, anything else is rethrown as it is *)
Wrap(prefix, e) == IF e.isError THEN Err(<<prefix>> \o e.message) ELSE e

(* loadConfig: file is the config file on disk *)
loadConfig(file) ==
    LET Throw(e) ==
            [thrown |-> Some(Wrap("Failed to load configuration", e)),
             config |-> NoConfig]
        r == validateAndNormalizeConfig(file)
    IN  CASE file.kind = "missing" -> [thrown |-> None, config |-> getDefaultConfig]
          [] file.kind = "throws" -> Throw(file.thrown)
          [] file.kind = "null" ->
                Throw(Err(<<"Cannot read properties of null">>))
          [] OTHER -> IF r.thrown # None THEN Throw(r.thrown[1]) ELSE r

StrLatest == <<"l", "a", "t", "e", "s", "t">>
StrAll == <<"a", "l", "l">>

(* Mutant: "all" is not recognised and is taken for a semver range *)
mergeConfigWithVersionRangeNoAll(c, versionRange) ==
    IF versionRange = <<>> THEN c
    ELSE IF versionRange = StrLatest
    THEN [c EXCEPT !.strategy = "latest", !.semverRange = <<>>]
    ELSE [c EXCEPT !.strategy = "semver", !.semverRange = versionRange]

mergeConfigWithVersionRange(c, versionRange) ==
    IF versionRange = <<>> THEN c
    ELSE IF versionRange = StrLatest
    THEN [c EXCEPT !.strategy = "latest", !.semverRange = <<>>]
    ELSE IF versionRange = StrAll
    THEN [c EXCEPT !.strategy = "all", !.semverRange = <<>>]
    ELSE [c EXCEPT !.strategy = "semver", !.semverRange = versionRange]

-----------------------------------------------------------------------------
(* The remote tag source.  Page k holds source.pages[k] when k is within
   source.pages and source.filler otherwise; it carries a next cursor when
   the source is endless or k is not its last page (source.total). *)

PageAt(src, k) == IF k <= Len(src.pages) THEN src.pages[k] ELSE src.filler

HasNext(src, k) == src.endless \/ k < src.total

(* Everything the first n pages of the source hold, in the source's order *)
FirstPages(src, n) == Flatten([k \in 1..n |-> PageAt(src, k)])

-----------------------------------------------------------------------------
(* run() and fetchDockerTags, step by step *)

(* The catch block of run: only an Error is reported *)
Reported(e) == IF e.isError THEN Append(failed, e.message) ELSE failed

(* run, lines 148-163: the inputs are read and the configuration is loaded *)
LoadConfig ==
    /\ pc = "start"
    /\ LET r == loadConfig(inputs.file)
       IN  IF inputs.baseImage = <<>>
           THEN /\ failed' = Reported(Err(<<"Input required and not supplied">>))
                /\ pc' = "done"
                /\ UNCHANGED <<loaded, config>>
           ELSE IF r.thrown # None
           THEN /\ failed' = Reported(r.thrown[1])
                /\ pc' = "done"
                /\ UNCHANGED <<loaded, config>>
           ELSE /\ loaded' = r.config
                /\ config' = r.config
                /\ pc' = "merge"
                /\ UNCHANGED failed
    /\ UNCHANGED <<inputs, source, fetchVars, selectVars, matrix, output>>

(* run, lines 165-171: the override is applied and fetchDockerTags starts *)
ApplyOverride ==
    /\ pc = "merge"
    /\ config' = IF inputs.versionRange # <<>>
                 THEN mergeConfigWithVersionRange(config, inputs.versionRange)
                 ELSE config
    /\ url' = 1
    /\ page' = 0
    /\ tags' = <<>>
    /\ pc' = "fetch"
    /\ UNCHANGED <<inputs, source, loaded, requests, inflight, sawLast,
                   selectVars, matrix, output, failed>>

(* fetchDockerTags, lines 40-45: the next page is requested *)
FetchRequest ==
    /\ pc = "fetch"
    /\ LoopContinues(url, page)
    /\ page' = page + 1
    /\ requests' = requests + 1
    /\ inflight' = inflight + 1
    /\ pc' = "await"
    /\ UNCHANGED <<inputs, source, loaded, config, url, tags, sawLast,
                   selectVars, matrix, output, failed>>

(* What client.getJson can do: answer with the page, answer without a result,
   or throw (an Error, or some other value) *)
ResponseOutcomes == {"page", "noResult", "throwsError", "throwsOther"}

(* fetchDockerTags, lines 45-75: the response of the pending request *)
FetchResponse ==
    /\ pc = "await"
    /\ inflight' = inflight - 1
    /\ \E outcome \in ResponseOutcomes :
          IF outcome = "page"
          THEN /\ tags' = tags \o ActiveTags(PageAt(source, url))
               /\ url' = IF HasNext(source, url) THEN url + 1 ELSE 0
               /\ sawLast' = (sawLast \/ ~HasNext(source, url))
               /\ pc' = "fetch"
               /\ UNCHANGED failed
          ELSE /\ failed' =
                    Reported(Wrap("Failed to fetch Docker tags",
                        CASE outcome = "noResult" ->
                                Err(<<"Failed to fetch tags: No result returned">>)
                          [] outcome = "throwsError" -> Err(<<"request failed">>)
                          [] OTHER -> NonError))
               /\ pc' = "done"
               /\ UNCHANGED <<tags, url, sawLast>>
    /\ UNCHANGED <<inputs, source, loaded, config, page, requests, selectVars,
                   matrix, output>>

(* fetchDockerTags, lines 40 and 66-67: the loop ends and the tags are
   returned *)
FetchReturn ==
    /\ pc = "fetch"
    /\ ~LoopContinues(url, page)
    /\ pc' = "fetched"
    /\ UNCHANGED <<inputs, source, loaded, config, fetchVars, selectVars,
                   matrix, output, failed>>

(* run, lines 173-191 (first half): the empty check and the classification *)
Classify ==
    /\ pc = "fetched"
    /\ IF Len(tags) = 0
       THEN /\ failed' = Reported(Err(<<"No tags found for Docker image">>))
            /\ pc' = "done"
            /\ UNCHANGED semverTags
       ELSE /\ semverTags' = filterSemanticVersionTags(tags)
            /\ pc' = IF Len(semverTags') = 0 THEN "fallback" ELSE "select"
            /\ UNCHANGED failed
    /\ UNCHANGED <<inputs, source, loaded, config, fetchVars, filtered,
                   selected, matrix, output>>

(* run, lines 180-188: no semantic version tag, the latest raw tag is taken *)
Fallback ==
    /\ pc = "fallback"
    /\ LET latest == getLatestTag(tags)
       IN  IF latest = None
           THEN /\ failed' = Reported(Err(<<"No tags available">>))
                /\ pc' = "done"
                /\ UNCHANGED selected
           ELSE /\ selected' = <<latest[1].name>>
                /\ pc' = "build"
                /\ UNCHANGED failed
    /\ UNCHANGED <<inputs, source, loaded, config, fetchVars, semverTags,
                   filtered, matrix, output>>

(* run, lines 193-208: the versions are selected by the strategy *)
Select ==
    /\ pc = "select"
    /\ LET semverRange ==
               IF config.strategy = "semver" /\ config.semverRange # <<>>
               THEN parsePipeDelimitedRange(config.semverRange)
               ELSE config.semverRange
           r == filterVersions(semverTags, config.strategy, semverRange,
                               config.maxVersions)
       IN  /\ filtered' = r.filtered
           /\ selected' = r.versions
           /\ IF r.thrown # None
              THEN failed' = Reported(r.thrown[1]) /\ pc' = "done"
              ELSE IF Len(r.versions) = 0
              THEN /\ failed' = Reported(
                          Err(<<"No versions matched the specified criteria">>))
                   /\ pc' = "done"
              ELSE UNCHANGED failed /\ pc' = "build"
    /\ UNCHANGED <<inputs, source, loaded, config, fetchVars, semverTags,
                   matrix, output>>

(* run, lines 188-190 and 211-215: the matrix is built and set as output *)
Build ==
    /\ pc = "build"
    /\ matrix' = buildMatrix(selected, config.builds, inputs.baseImage)
    /\ output' = Append(output, matrix')
    /\ pc' = "done"
    /\ UNCHANGED <<inputs, source, loaded, config, fetchVars, selectVars,
                   failed>>

-----------------------------------------------------------------------------
(* The inputs the model draws from *)

N_1_0_0 == <<"1", ".", "0", ".", "0">>
N_1_5_0 == <<"1", ".", "5", ".", "0">>
N_2_0_0 == <<"2", ".", "0", ".", "0">>
N_v3 == <<"v", "3">>
N_1_2_alpine == <<"1", ".", "2", "-", "a", "l", "p", "i", "n", "e">>
N_latest == <<"l", "a", "t", "e", "s", "t">>
N_rc == <<"r", "c">>
N_edge == <<"e", "d", "g", "e">>
N_stable == <<"s", "t", "a", "b", "l", "e">>

R_c1 == <<"^", "1">>
R_c2 == <<"^", "2">>
R_c1_c2 == <<"^", "1", "|", "^", "2">>
R_c1_c2_spaced == <<" ", "^", "1", " ", "|", " ", "2", " ">>
R_c1_bad == <<"^", "1", "|", "a", "b", "c">>
R_c1_empty == <<"^", "1", "|">>
R_c1_and_c2 == <<"^", "1", " ", "^", "2">>
R_c3_c1_c2 == <<"^", "3", "|", "^", "1", "|", "^", "2">>

(* A result entry of a Docker Hub response page *)
Entry(name, lastUpdated, status) ==
    [name |-> name, last_updated |-> lastUpdated, tag_status |-> status]

Tag(name, lastUpdated) == [name |-> name, lastUpdated |-> lastUpdated]

FiniteSource(pages) ==
    [pages |-> pages, filler |-> <<>>, total |-> Len(pages), endless |-> FALSE]

RunSources ==
    { FiniteSource(<< <<Entry(N_1_0_0, 1, "active"), Entry(N_1_5_0, 3, "active"),
                        Entry(N_latest, 3, "active")>>,
                      <<Entry(N_2_0_0, 2, "active"), Entry(N_v3, 1, "inactive")>> >>),
      FiniteSource(<< <<Entry(N_1_0_0, 1, "active"), Entry(N_1_5_0, 0, "active"),
                        Entry(N_2_0_0, 2, "active")>> >>),
      FiniteSource(<< <<Entry(N_rc, 1, "active")>>,
                      <<Entry(N_stable, 2, "active")>> >>),
      FiniteSource(<< <<Entry(N_rc, 1, "active"), Entry(N_edge, 0, "active"),
                        Entry(N_stable, 2, "active")>> >>),
      FiniteSource(<< <<Entry(N_v3, 1, "active")>> >>),
      FiniteSource(<< <<Entry(N_1_0_0, 1, "inactive")>> >>),
      FiniteSource(<< <<>> >>) }

BuildDefault == DefaultBuild

BuildAlpine ==
    [name |-> "alpine", dockerfilePath |-> "Dockerfile.alpine",
     contextPath |-> "docker",
     buildArgs |-> Some([k \in {"VARIANT", "BASE_IMAGE"} |->
                            IF k = "VARIANT" THEN <<"a">> ELSE <<"m">>]),
     tags |-> Some(<< Placeholder \o <<"-">> \o Placeholder, <<"a">>,
                      <<"n", "-">> \o Placeholder >>)]

BuildBare ==
    [name |-> "", dockerfilePath |-> "", contextPath |-> "",
     buildArgs |-> None, tags |-> None]

BuildConfigs == {BuildDefault, BuildAlpine, BuildBare}

FileObject(strategy, semverRange, maxVersions, builds) ==
    [kind |-> "object", strategy |-> strategy, semverRange |-> semverRange,
     maxVersions |-> maxVersions, builds |-> builds, thrown |-> NonError]

FileOther(kind, thrown) ==
    [kind |-> kind, strategy |-> "", semverRange |-> <<>>,
     maxVersions |-> None, builds |-> None, thrown |-> thrown]

ConfigFiles ==
    { FileObject(st, sr, mv, b) :
        st \in {"", "latest", "all", "semver", "newest"},
        sr \in {<<>>, R_c1, R_c1_c2},
        mv \in {None, Some(-1), Some(0), Some(1), Some(2)},
        b \in {None, Some(<<>>), Some(<<BuildBare>>),
               Some(<<BuildDefault, BuildAlpine>>)} }
    \cup { FileOther("missing", NonError), FileOther("null", NonError),
           FileOther("throws", Err(<<"ENOENT">>)), FileOther("throws", NonError) }

VersionRangeInputs == {<<>>, StrLatest, StrAll, R_c2, R_c1_c2}

BaseImage == <<"n", "o", "d", "e">>

RunInputs ==
    { [baseImage |-> BaseImage, versionRange |-> vr, file |-> f] :
        vr \in VersionRangeInputs, f \in ConfigFiles }
    \cup { [baseImage |-> <<>>, versionRange |-> <<>>,
            file |-> FileOther("missing", NonError)] }

FixedInputs ==
    [baseImage |-> BaseImage, versionRange |-> <<>>,
     file |-> FileOther("missing", NonError)]

(* Sources for the pagination loop: short ones with every page drawn from
   PageSet, and long ones around the safety limit *)
PageSet ==
    { <<>>,
      <<Entry(N_1_0_0, 1, "active")>>,
      <<Entry(N_rc, 1, "inactive"), Entry(N_1_5_0, 2, "active")>>,
      <<Entry(N_2_0_0, 2, "active"), Entry(N_latest, 0, "active")>> }

ShortSources ==
    { FiniteSource(ps) : ps \in SeqsUpTo(PageSet, MaxPages) \ {<<>>} }

LongSources ==
    { [pages |-> <<first>>, filler |-> fill, total |-> n, endless |-> e] :
        first \in {<<>>, <<Entry(N_rc, 1, "inactive"), Entry(N_1_5_0, 2, "active")>>},
        fill \in {<<>>, <<Entry(N_1_0_0, 1, "active")>>},
        n \in {PageCap - 1, PageCap, PageCap + 1},
        e \in BOOLEAN }

FetchSources == ShortSources \cup LongSources

(* Tag lists for the selection: names are distinct, as the tags of one
   repository are *)
TimedTagLists ==
    { l \in SeqsUpTo({Tag(n, t) : n \in {N_1_0_0, N_1_5_0, N_2_0_0, N_v3},
                                 t \in {0, 1, 2}}, MaxTags) :
        Distinct(Names(l)) }

NamedTagLists ==
    { l \in SeqsUpTo({Tag(n, 1) : n \in {N_1_0_0, N_1_2_alpine, N_2_0_0, N_v3,
                                           N_latest}}, MaxTags) :
        Distinct(Names(l)) }

SelectRanges ==
    {<<>>, R_c1, R_c2, R_c1_c2, R_c1_c2_spaced, R_c1_bad, R_c1_empty,
     R_c1_and_c2, R_c3_c1_c2}

SelectCaps == {None, Some(-1), Some(0), Some(1), Some(2)}

SelectConfig(strategy, semverRange, maxVersions) ==
    [strategy |-> strategy, semverRange |-> semverRange,
     maxVersions |-> maxVersions, builds |-> getDefaultConfig.builds]

SelectCases ==
    { [list |-> l, config |-> SelectConfig(st, <<>>, mv)] :
        l \in TimedTagLists, st \in {"latest", "all", "newest"},
        mv \in SelectCaps }
    \cup { [list |-> l, config |-> SelectConfig("semver", sr, mv)] :
             l \in NamedTagLists, sr \in SelectRanges, mv \in {None, Some(1)} }

(* Version lists for buildMatrix: the names are tag names of the registry,
   which are made of letters, digits, '_', '.' and '-' *)
VersionLists == SeqsUpTo({N_1_0_0, N_v3}, MaxVersions)

BuildLists == {None} \cup {Some(b) : b \in SeqsUpTo(BuildConfigs, MaxBuilds)}

NoSource == FiniteSource(<< <<>> >>)

-----------------------------------------------------------------------------
(* Specifications *)

IdleFetch ==
    /\ url = 0
    /\ page = 0
    /\ tags = <<>>
    /\ requests = 0
    /\ inflight = 0
    /\ sawLast = FALSE

IdleSelect ==
    /\ semverTags = <<>>
    /\ filtered = <<>>
    /\ selected = <<>>

IdleOut ==
    /\ matrix = <<>>
    /\ output = <<>>
    /\ failed = <<>>

(* One run of the action *)
Init ==
    /\ pc = "start"
    /\ inputs \in RunInputs
    /\ source \in RunSources
    /\ loaded = NoConfig
    /\ config = NoConfig
    /\ IdleFetch
    /\ IdleSelect
    /\ IdleOut

Next ==
    \/ LoadConfig
    \/ ApplyOverride
    \/ FetchRequest
    \/ FetchResponse
    \/ FetchReturn
    \/ Classify
    \/ Fallback
    \/ Select
    \/ Build

Spec == Init /\ [][Next]_vars

(* fetchDockerTags on its own, entered as run enters it (lines 34-36), over
   short sources and sources around the safety limit *)
InitFetch ==
    /\ pc = "fetch"
    /\ inputs = FixedInputs
    /\ source \in FetchSources
    /\ loaded = getDefaultConfig
    /\ config = getDefaultConfig
    /\ url = 1
    /\ page = 0
    /\ tags = <<>>
    /\ requests = 0
    /\ inflight = 0
    /\ sawLast = FALSE
    /\ IdleSelect
    /\ IdleOut

NextFetch == FetchRequest \/ FetchResponse \/ FetchReturn

SpecFetch == InitFetch /\ [][NextFetch]_vars

(* Every pending request is answered (or fails), and the loop itself is
   sequential code that runs on *)
FairSpecFetch == SpecFetch /\ WF_vars(NextFetch)

(* The selection step of run on its own (lines 193-208), for every tag list,
   strategy, range and cap *)
InitSelect ==
    /\ pc = "select"
    /\ inputs = FixedInputs
    /\ source = NoSource
    /\ \E c \in SelectCases :
          /\ semverTags = c.list
          /\ loaded = c.config
          /\ config = c.config
    /\ filtered = <<>>
    /\ selected = <<>>
    /\ IdleFetch
    /\ IdleOut

NextSelect == Select

SpecSelect == InitSelect /\ [][NextSelect]_vars

(* buildMatrix on its own (called at lines 188 and 211), for every version
   list and every list of BuildConfigs *)
InitMatrix ==
    /\ pc = "build"
    /\ inputs = FixedInputs
    /\ source = NoSource
    /\ selected \in VersionLists
    /\ \E b \in BuildLists :
          /\ loaded = [getDefaultConfig EXCEPT !.builds = b]
          /\ config = loaded
    /\ semverTags = <<>>
    /\ filtered = <<>>
    /\ IdleFetch
    /\ IdleOut

NextMatrix == Build

SpecMatrix == InitMatrix /\ [][NextMatrix]_vars

-----------------------------------------------------------------------------
(* Properties *)

(* C1: every finished run has exactly one outcome: either the matrix output
   was set exactly once and no failure was reported, or a failure was
   reported and the output was never set; never both, never neither. *)
C1_ExactlyOneOutcome ==
    pc = "done" =>
        \/ Len(output) = 1 /\ failed = <<>>
        \/ output = <<>> /\ Len(failed) >= 1

(* C2: buildMatrix returns |V| x |B| entries, and the entry at index
   i*|B|+j (0-based) carries version V[i] and the name and paths of B[j]
   (the defaults where B[j] declares none): versions outside, BuildConfigs
   inside. *)
C2_MatrixIsNestedProduct ==
    pc = "done" =>
        LET V == selected
            B == IF config.builds = None THEN <<>> ELSE config.builds[1]
        IN  /\ Len(matrix) = Len(V) * Len(B)
            /\ \A i \in 0..(Len(V) - 1) : \A j \in 0..(Len(B) - 1) :
                  LET e == matrix[i * Len(B) + j + 1]
                  IN  /\ e.version = V[i + 1]
                      /\ e.name = OrElse(B[j + 1].name, "default")
                      /\ e.dockerfilePath
                            = OrElse(B[j + 1].dockerfilePath, "Dockerfile")
                      /\ e.contextPath = OrElse(B[j + 1].contextPath, ".")

(* C2 witness: three versions, not all the same, times two different
   BuildConfigs gave six entries. *)
C2_Witness ==
    /\ pc = "done"
    /\ Len(selected) = 3
    /\ selected[1] # selected[2]
    /\ config.builds # None
    /\ Len(config.builds[1]) = 2
    /\ config.builds[1][1] # config.builds[1][2]
    /\ Len(matrix) = 6

(* C3: the fetch loop terminates (it returns or throws); it never issues
   more than 100 page requests; a request is issued only when no other is
   pending and no page without a next cursor has been received, one at a
   time. *)
C3_FetchLoopTerminates ==
    /\ [](requests <= PageCap /\ inflight <= 1)
    /\ [][requests' # requests =>
            /\ requests' = requests + 1
            /\ inflight = 0
            /\ ~sawLast]_vars
    /\ <>(pc \in {"fetched", "done"})

(* C3 witness: a source that gives a next cursor on every page was asked
   for 100 pages and the loop has ended. *)
C3_Witness ==
    /\ pc = "fetched"
    /\ source.endless
    /\ ~sawLast
    /\ requests = PageCap

(* C4 as claimed: the returned list is the list of the active tags of all
   pages of the source, each once, in the source's order. *)
C4_ReturnsAllActiveTags ==
    (pc = "fetched" /\ ~source.endless) =>
        tags = ActiveTags(FirstPages(source, source.total))

(* C4 as amended: the returned list is the list of the active tags of the
   pages fetched, each once and in the source's order: all pages of a
   source of at most 100 pages, the first 100 pages of any other. *)
C4_ReturnsActiveTagsOfFetchedPages ==
    pc = "fetched" =>
        LET fetched == IF source.endless THEN PageCap
                       ELSE Min(source.total, PageCap)
            all == FirstPages(source, fetched)
        IN  /\ page = fetched
            /\ Len(tags) = Cardinality({i \in DOMAIN all :
                                           all[i].tag_status = "active"})
            /\ \A i \in DOMAIN tags :
                  \E j \in DOMAIN all :
                     /\ all[j].tag_status = "active"
                     /\ tags[i].name = all[j].name
                     /\ tags[i].lastUpdated = all[j].last_updated
                     /\ Cardinality({k \in 1..j : all[k].tag_status = "active"}) = i

(* C4 witness: the loop ended at the safety limit with a cursor left and
   tags of several pages, inactive entries among those pages. *)
C4_Witness ==
    /\ pc = "fetched"
    /\ page = PageCap
    /\ url # 0
    /\ Len(tags) >= PageCap
    /\ \E e \in Range(PageAt(source, 1)) : e.tag_status # "active"

(* The versions a matrix holds *)
MatrixVersions == {matrix[i].version : i \in DOMAIN matrix}

(* Tag t of the list is as recent as any: no tag of the list that is
   comparable with it (both carry a timestamp) was updated later *)
MostRecentIn(t, tagList) ==
    \A i \in DOMAIN tagList :
        (tagList[i].lastUpdated # 0 /\ t.lastUpdated # 0)
            => tagList[i].lastUpdated <= t.lastUpdated

(* C5: with a non-empty tag list none of whose tags is a semantic version,
   the run does not fail: it selects the single raw tag with the most recent
   lastUpdated of the unfiltered list, and emits one matrix entry per
   BuildConfig for it, whatever the strategy, the range and maxVersions. *)
C5_FallbackSelectsMostRecent ==
    /\ (pc \in {"build", "done"} /\ tags # <<>> /\ semverTags = <<>>
            /\ (pc = "done" => output # <<>>)) =>
          /\ failed = <<>>
          /\ Len(selected) = 1
          /\ \E i \in DOMAIN tags :
                /\ tags[i].name = selected[1]
                /\ MostRecentIn(tags[i], tags)
          /\ pc = "done" =>
                /\ Len(matrix) = Len(config.builds[1])
                /\ MatrixVersions = {selected[1]}
    /\ <<"No tags available">> \notin Range(failed)

(* C6: under the Latest strategy filterVersions returns the empty list only
   for an empty input and otherwise exactly one name, that of the most
   recently updated candidate: no other candidate carrying a timestamp was
   updated strictly later, and of the candidates with the same timestamp it
   is the earliest in source order. *)
C6_LatestReturnsMostRecent ==
    (pc # "select" /\ config.strategy = "latest") =>
        /\ Len(selected) <= 1
        /\ (Len(selected) = 0) <=> (semverTags = <<>>)
        /\ Len(selected) = 1 =>
              \E i \in DOMAIN semverTags :
                 /\ semverTags[i].name = selected[1]
                 /\ MostRecentIn(semverTags[i], semverTags)
                 /\ \A j \in 1..(i - 1) :
                       semverTags[j].lastUpdated # semverTags[i].lastUpdated

(* C7: with a positive maxVersions n, filterVersions returns exactly the
   names of the first min(n, length) elements of the strategy-filtered list,
   in that list's order, so never more than n; the strategy-filtered list of
   All is the input itself. *)
C7_CapTakesLeadingElements ==
    (pc = "build" /\ config.maxVersions # None /\ config.maxVersions[1] > 0) =>
        LET n == config.maxVersions[1]
            k == Min(n, Len(filtered))
        IN  /\ Len(selected) = k
            /\ Len(selected) <= n
            /\ \A i \in 1..k : selected[i] = filtered[i].name
            /\ config.strategy = "all" => filtered = semverTags

(* C7 witness: All with maxVersions 2 on three candidates kept the first
   two. *)
C7_Witness ==
    /\ pc = "build"
    /\ config.strategy = "all"
    /\ config.maxVersions = Some(2)
    /\ Len(semverTags) = 3
    /\ selected = <<semverTags[1].name, semverTags[2].name>>

MaxVersionsError ==
    <<"Failed to load configuration", "maxVersions must be greater than 0">>

(* The file parses to an object whose strategy and range pass validation *)
FileStrategyValid(f) ==
    /\ f.kind = "object"
    /\ f.strategy \in {"", "latest", "all", "semver"}
    /\ f.strategy = "semver" => f.semverRange # <<>>

(* Once the selection has run, nothing was cut from the strategy-filtered
   list, and every version of it is in the matrix that was output *)
NoCapApplied ==
    /\ (pc \in {"build", "done"} /\ semverTags # <<>>) =>
          /\ selected = Names(filtered)
          /\ config.strategy = "all" => filtered = semverTags
    /\ (pc = "done" /\ output # <<>> /\ semverTags # <<>>) =>
          MatrixVersions = Range(Names(filtered))

(* C8 as claimed: a configuration with maxVersions missing or 0 is accepted
   and imposes no cap, one with maxVersions -1 is rejected as a
   configuration validation error. *)
C8_MissingOrZeroIsNoCap ==
    LET f == inputs.file
    IN  /\ (pc # "start" /\ FileStrategyValid(f)
                /\ f.maxVersions \in {None, Some(0)}) =>
              /\ MaxVersionsError \notin Range(failed)
              /\ loaded # NoConfig
              /\ NoCapApplied
        /\ (pc # "start" /\ FileStrategyValid(f) /\ f.maxVersions = Some(-1)) =>
              /\ pc = "done"
              /\ failed = <<MaxVersionsError>>
              /\ output = <<>>

(* C8 as amended: a configuration with maxVersions missing is accepted and
   imposes no cap; a configuration file with maxVersions 0 is rejected as a
   configuration validation error, just as one with maxVersions -1. *)
C8_OnlyMissingIsNoCap ==
    LET f == inputs.file
    IN  /\ (pc # "start" /\ inputs.baseImage # <<>>
                /\ (FileStrategyValid(f) \/ f.kind = "missing")
                /\ f.maxVersions = None) =>
              /\ MaxVersionsError \notin Range(failed)
              /\ loaded # NoConfig
              /\ NoCapApplied
        /\ (pc # "start" /\ FileStrategyValid(f)
                /\ f.maxVersions \in {Some(0), Some(-1)}) =>
              /\ pc = "done"
              /\ failed = <<MaxVersionsError>>
              /\ output = <<>>
              /\ requests = 0

(* C8 witness: a file with maxVersions 0 and a valid strategy was rejected. *)
C8_Witness ==
    /\ pc = "done"
    /\ FileStrategyValid(inputs.file)
    /\ inputs.file.maxVersions = Some(0)
    /\ failed = <<MaxVersionsError>>

(* The segments of a pipe-delimited range string, trimmed *)
Segments(rangeString) ==
    LET pieces == Split(rangeString, "|")
    IN  [i \in DOMAIN pieces |-> Trim(pieces[i])]

(* The names a range selects from the candidates when run on its own *)
SelectedBy(range) == Range(Names(filterBySemverRange(semverTags, range)))

(* C9 as claimed: for every range string, SemverRange selection with the
   whole string selects exactly the union of what its pipe-separated
   segments select one by one; a string without pipe is passed on
   unchanged. *)
C9_PipeRangeIsUnionOfSegments ==
    (pc # "select" /\ config.strategy = "semver" /\ config.semverRange # <<>>
        /\ config.maxVersions = None) =>
        LET segs == Segments(config.semverRange)
        IN  /\ Range(selected) = UNION {SelectedBy(segs[i]) : i \in DOMAIN segs}
            /\ ~Includes(config.semverRange, "|") =>
                  parsePipeDelimitedRange(config.semverRange) = config.semverRange

(* C9 as amended: the same, for the range strings whose segments are, once
   trimmed, each a non-empty valid semver range. *)
C9_ValidPipeRangeIsUnionOfSegments ==
    (pc # "select" /\ config.strategy = "semver" /\ config.semverRange # <<>>
        /\ config.maxVersions = None
        /\ \A i \in DOMAIN Segments(config.semverRange) :
              /\ Segments(config.semverRange)[i] # <<>>
              /\ ParseRange(Segments(config.semverRange)[i]).ok) =>
        LET segs == Segments(config.semverRange)
        IN  /\ Range(selected) = UNION {SelectedBy(segs[i]) : i \in DOMAIN segs}
            /\ ~Includes(config.semverRange, "|") =>
                  parsePipeDelimitedRange(config.semverRange) = config.semverRange

(* C9 witness: "^1|^2" selected a 1.x and a 2.x candidate and left a 3.x
   one out. *)
C9_Witness ==
    /\ pc = "build"
    /\ config.strategy = "semver"
    /\ config.semverRange = R_c1_c2
    /\ config.maxVersions = None
    /\ Range(Names(semverTags)) = {N_1_0_0, N_2_0_0, N_v3}
    /\ Range(selected) = {N_1_0_0, N_2_0_0}

(* What the override asks for *)
OverrideStrategy(versionRange) ==
    IF versionRange = StrLatest THEN "latest"
    ELSE IF versionRange = StrAll THEN "all" ELSE "semver"

OverrideRange(versionRange) ==
    IF versionRange \in {StrLatest, StrAll} THEN <<>> ELSE versionRange

(* The override is in force: the run's configuration has the strategy and
   range the override asks for, and the selection, once made, is the one that
   strategy gives with the given maxVersions *)
OverrideInForce(maxVersions) ==
    LET st == OverrideStrategy(inputs.versionRange)
        sr == OverrideRange(inputs.versionRange)
        r == filterVersions(semverTags, st,
                            IF st = "semver" THEN parsePipeDelimitedRange(sr)
                            ELSE sr,
                            maxVersions)
    IN  /\ config.strategy = st
        /\ config.semverRange = sr
        /\ (pc \in {"build", "done"} /\ semverTags # <<>>) =>
              selected = r.versions

(* C10 as claimed: a non-empty override supersedes the strategy of the
   config file whatever the file's strategy and range are, leaving
   maxVersions and builds as loaded; without override the configuration is
   used as loaded. *)
C10_OverrideSupersedesAnyFile ==
    LET f == inputs.file
    IN  (pc \notin {"start", "merge"} /\ f.kind = "object"
            /\ ~MaxVersionsRejected(f.maxVersions)) =>
            IF inputs.versionRange = <<>>
            THEN loaded # NoConfig => config = loaded
            ELSE /\ OverrideInForce(f.maxVersions)
                 /\ config.maxVersions = loaded.maxVersions
                 /\ config.builds = loaded.builds

(* C10 as amended: a non-empty override supersedes the strategy of every
   configuration that loadConfig returned (a missing file, or a file that
   passes validation), leaving maxVersions and builds as loaded; without
   override the configuration is used as loaded. *)
C10_OverrideSupersedesLoadedConfig ==
    (pc \notin {"start", "merge"} /\ loaded # NoConfig) =>
        IF inputs.versionRange = <<>>
        THEN config = loaded
        ELSE /\ OverrideInForce(loaded.maxVersions)
             /\ config.maxVersions = loaded.maxVersions
             /\ config.builds = loaded.builds

(* C10 witness: the override "all" replaced the semver strategy of the file
   and the run output a matrix for every candidate. *)
C10_Witness ==
    /\ pc = "done"
    /\ output # <<>>
    /\ inputs.versionRange = StrAll
    /\ loaded.strategy = "semver"
    /\ loaded.semverRange # <<>>
    /\ config.strategy = "all"
    /\ Len(selected) = Len(semverTags)
    /\ Len(selected) >= 3

(* The build arguments a BuildConfig declares itself *)
OwnArgs(build) == IF build.buildArgs = None THEN EmptyMap ELSE build.buildArgs[1]

(* The BuildConfigs buildMatrix iterates over *)
BuildsUsed == IF config.builds = None THEN <<>> ELSE config.builds[1]

(* C11: in every MatrixEntry the keys of buildArgs are BASE_IMAGE_VERSION,
   BASE_IMAGE and the keys the BuildConfig declares; a key the BuildConfig
   does not declare has the injected value (the entry's version, the base
   image), and every key the BuildConfig declares has the BuildConfig's
   value, also when it collides with an injected key. *)
C11_BuildArgsMerge ==
    pc = "done" =>
        \A i \in 0..(Len(selected) - 1) : \A j \in 0..(Len(BuildsUsed) - 1) :
            LET e == matrix[i * Len(BuildsUsed) + j + 1]
                own == OwnArgs(BuildsUsed[j + 1])
            IN  /\ DOMAIN e.buildArgs
                      = {"BASE_IMAGE_VERSION", "BASE_IMAGE"} \cup DOMAIN own
                /\ \A k \in DOMAIN own : e.buildArgs[k] = own[k]
                /\ "BASE_IMAGE_VERSION" \notin DOMAIN own
                      => e.buildArgs["BASE_IMAGE_VERSION"] = e.version
                /\ "BASE_IMAGE" \notin DOMAIN own
                      => e.buildArgs["BASE_IMAGE"] = inputs.baseImage

(* C11 witness: one matrix holds an entry of a BuildConfig that declares
   BASE_IMAGE itself, with another value than the base image, next to a key
   of its own, and an entry of a BuildConfig that declares no buildArgs. *)
C11_Witness ==
    /\ pc = "done"
    /\ \E k \in DOMAIN matrix :
          /\ DOMAIN matrix[k].buildArgs
                = {"BASE_IMAGE_VERSION", "BASE_IMAGE", "VARIANT"}
          /\ matrix[k].buildArgs["BASE_IMAGE"] # inputs.baseImage
          /\ matrix[k].buildArgs["BASE_IMAGE_VERSION"] = matrix[k].version
    /\ \E k \in DOMAIN matrix :
          /\ DOMAIN matrix[k].buildArgs = {"BASE_IMAGE_VERSION", "BASE_IMAGE"}
          /\ matrix[k].buildArgs["BASE_IMAGE"] = inputs.baseImage
    /\ \E j \in DOMAIN BuildsUsed : BuildsUsed[j].buildArgs = None

(* The tag templates of a BuildConfig as buildMatrix reads them *)
TemplatesOf(build) == IF build.tags = None THEN <<Placeholder>> ELSE build.tags[1]

(* The positions of a template at which the placeholder occurs *)
Occurrences(t) ==
    {p \in 1..Len(t) : /\ p + Len(Placeholder) - 1 <= Len(t)
                       /\ SubSeq(t, p, p + Len(Placeholder) - 1) = Placeholder}

(* The template with its first placeholder, and nothing else, replaced *)
FirstOccurrenceReplaced(t, version) ==
    IF Occurrences(t) = {} THEN t
    ELSE LET p == CHOOSE q \in Occurrences(t) : \A r \in Occurrences(t) : q <= r
         IN  SubSeq(t, 1, p - 1) \o version
             \o SubSeq(t, p + Len(Placeholder), Len(t))

(* C12: the tags of every MatrixEntry are as many as the templates of its
   BuildConfig (the single template {version} when it declares none) and
   in their order; each tag is its template with the first occurrence of
   {version} replaced by the entry's version, and everything else, later
   occurrences and templates without the placeholder included, unchanged. *)
C12_TagsReplaceFirstOccurrence ==
    pc = "done" =>
        \A i \in 0..(Len(selected) - 1) : \A j \in 0..(Len(BuildsUsed) - 1) :
            LET e == matrix[i * Len(BuildsUsed) + j + 1]
                templates == TemplatesOf(BuildsUsed[j + 1])
            IN  /\ Len(e.tags) = Len(templates)
                /\ \A t \in DOMAIN templates :
                      e.tags[t] = FirstOccurrenceReplaced(templates[t], e.version)

(* C12 witness: a matrix with an entry whose BuildConfig declares no tags,
   and an entry with a template holding the placeholder twice, whose tag
   still holds the placeholder once, and a template without it. *)
C12_Witness ==
    /\ pc = "done"
    /\ \E j \in DOMAIN BuildsUsed : BuildsUsed[j].tags = None
    /\ \E k \in DOMAIN matrix : matrix[k].tags = <<matrix[k].version>>
    /\ \E k \in DOMAIN matrix : \E j \in DOMAIN BuildsUsed :
          LET templates == TemplatesOf(BuildsUsed[j])
          IN  /\ Len(matrix[k].tags) = Len(templates)
              /\ \E t \in DOMAIN templates :
                    /\ Cardinality(Occurrences(templates[t])) = 2
                    /\ Cardinality(Occurrences(matrix[k].tags[t])) = 1
                    /\ matrix[k].tags[t]
                          = matrix[k].version \o <<"-">> \o Placeholder
              /\ \E t \in DOMAIN templates :
                    /\ Occurrences(templates[t]) = {}
                    /\ matrix[k].tags[t] = templates[t]

(* One step of run that ends it in failure: a failure is reported and the
   output is left unset *)
EndsInFailure ==
    /\ pc' = "done"
    /\ Len(failed') = Len(failed) + 1
    /\ output' = output
    /\ output = <<>>

(* C13: a matrix set as output has at least one entry; with an empty
   fetched tag list the run ends in failure and neither the fallback nor
   the selection is entered; a selection that comes out empty ends the run
   in failure; the BuildConfigs the matrix is built from are never none. *)
C13_MatrixOutputNotEmpty ==
    /\ [](/\ \A k \in DOMAIN output : Len(output[k]) >= 1
          /\ pc \in {"fallback", "select", "build"} => Len(tags) >= 1
          /\ pc = "select" => Len(semverTags) >= 1
          /\ pc = "build" => (Len(selected) >= 1 /\ Len(BuildsUsed) >= 1))
    /\ [][(pc = "fetched" /\ tags = <<>>) => EndsInFailure]_vars
    /\ [][(pc = "select" /\ selected' = <<>>) => EndsInFailure]_vars

(* C13 witness: the config file declared an empty list of builds and the
   run set a matrix of at least one entry as its output. *)
C13_Witness ==
    /\ pc = "done"
    /\ inputs.file.kind = "object"
    /\ inputs.file.builds = Some(<<>>)
    /\ Len(output) = 1
    /\ Len(output[1]) >= 1
    /\ failed = <<>>

====
